---- MODULE Spec2Model ----
(***************************************************************************)
(* Model of validators/cgroup_validator.go: CgroupsValidator.Validate,     *)
(* validateCgroupSubsystems and getCgroupSubsystems, with the              *)
(* bufio.Scanner / bufio.ScanLines loop that getCgroupSubsystems drives    *)
(* modelled byte by byte.  Go strings that the code inspects per byte are  *)
(* sequences of one-character strings; messages are TLA+ strings.          *)
(***************************************************************************)
EXTENDS Integers, Sequences, FiniteSets, TLC

\* ---------------------------------------------------------------- bounds
MaxLines == 2        \* lines in /proc/cgroups (single-call specification)
MaxLinesTwice == 1   \* lines in /proc/cgroups (two-call specification)
MaxNames == 2        \* entries of Required and Optional together
MaxCalls == 2        \* Validate calls in the two-call specification
ReadMax == 8         \* bytes one Read delivers into the scanner buffer

\* ------------------------------------------------------------- constants
cgroupsConfigPrefix == "CGROUPS_"
good == "good"
warn == "warn"
bad == "bad"
NoErr == "nil"
EOF == "EOF"
ENOENT == "open /proc/cgroups: no such file or directory"
EIO == "read /proc/cgroups: input/output error"
NL == "\n"
WhiteSpace == {" ", "\t", "\n", "\r"}

cpu == <<"c", "p", "u">>
pids == <<"p", "i", "d", "s">>
Names == {cpu, pids}

\* The lines a status source is made of: an enabled record, a disabled
\* record (tab separated, CR before the newline), a record whose 4th field
\* is "00", a comment with four fields, a record with three fields, an empty
\* line and a blank line.
SampleLines ==
  { <<"c", "p", "u", " ", "1", " ", "1", " ", "1">>,
    <<"p", "i", "d", "s", "\t", "2", " ", "1", " ", "0", "\r">>,
    <<"p", "i", "d", "s", " ", "2", " ", "1", " ", "0", "0">>,
    <<"#", "c", "p", "u", " ", "1", " ", "1", " ", "1">>,
    <<"c", "p", "u", " ", "1", " ", "1">>,
    <<>>,
    <<" ">> }

SeqsUpTo(S, n) == UNION {[1..k -> S] : k \in 0..n}

Contents(n) == SeqsUpTo(SampleLines, n)

SysSpecs ==
  {s \in [Required : SeqsUpTo(Names, MaxNames), Optional : SeqsUpTo(Names, MaxNames)] :
     Len(s.Required) + Len(s.Optional) <= MaxNames}

\* ------------------------------------------------------ string functions
Min(a, b) == IF a <= b THEN a ELSE b

RECURSIVE Str(_)
\* string(bytes)
Str(s) == IF s = <<>> THEN "" ELSE Head(s) \o Str(Tail(s))

UpperOf(ch) ==
  CASE ch = "c" -> "C" [] ch = "p" -> "P" [] ch = "u" -> "U"
    [] ch = "i" -> "I" [] ch = "d" -> "D" [] ch = "s" -> "S"
    [] OTHER -> ch

\* strings.ToUpper
ToUpper(s) == [i \in 1..Len(s) |-> UpperOf(s[i])]

RECURSIVE FieldsFrom(_, _, _)
FieldsFrom(text, cur, acc) ==
  IF text = <<>>
  THEN IF cur = <<>> THEN acc ELSE Append(acc, cur)
  ELSE IF Head(text) \in WhiteSpace
       THEN FieldsFrom(Tail(text), <<>>, IF cur = <<>> THEN acc ELSE Append(acc, cur))
       ELSE FieldsFrom(Tail(text), Append(cur, Head(text)), acc)

\* strings.Fields
Fields(text) == FieldsFrom(text, <<>>, <<>>)

RECURSIVE Join(_, _)
\* strings.Join
Join(elems, sep) ==
  IF elems = <<>> THEN ""
  ELSE IF Len(elems) = 1 THEN Str(elems[1])
  ELSE Str(elems[1]) \o sep \o Join(Tail(elems), sep)

\* Wrap that drops the cause
WrapNoCause(err, message) == message

\* errors.Wrap(err, message).Error()
Wrap(err, message) == message \o ": " \o err

\* Errorf that names only the first missing cgroup
ErrorfFirst(prefix, missing) == prefix \o Str(Head(missing))

\* errors.Errorf("missing required cgroups: %s", ...) and its optional twin
Errorf(prefix, missing) == prefix \o Join(missing, " ")

\* ----------------------------------------------------------- the scanner
RECURSIVE TerminatedBytes(_)
TerminatedBytes(lines) ==
  IF lines = <<>> THEN <<>> ELSE Head(lines) \o <<NL>> \o TerminatedBytes(Tail(lines))

\* the bytes of the status source: every line followed by a newline, except
\* the last one when the source does not end in a newline
FileBytes(lines, cut) ==
  IF cut /\ lines # <<>>
  THEN SubSeq(TerminatedBytes(lines), 1, Len(TerminatedBytes(lines)) - 1)
  ELSE TerminatedBytes(lines)

\* bytes.IndexByte(data, '\n'), 1-based, 0 when absent
IndexNL(data) ==
  IF \E i \in 1..Len(data) : data[i] = NL
  THEN CHOOSE i \in 1..Len(data) : data[i] = NL /\ \A j \in 1..(i - 1) : data[j] # NL
  ELSE 0

\* bufio.dropCR
dropCR(data) ==
  IF Len(data) > 0 /\ data[Len(data)] = "\r" THEN SubSeq(data, 1, Len(data) - 1) ELSE data

\* bufio.ScanLines
ScanLines(data, atEOF) ==
  IF atEOF /\ Len(data) = 0
  THEN [advance |-> 0, hasToken |-> FALSE, token |-> <<>>]
  ELSE IF IndexNL(data) > 0
  THEN [advance |-> IndexNL(data), hasToken |-> TRUE,
        token |-> dropCR(SubSeq(data, 1, IndexNL(data) - 1))]
  ELSE IF atEOF
  THEN [advance |-> Len(data), hasToken |-> TRUE, token |-> dropCR(data)]
  ELSE [advance |-> 0, hasToken |-> FALSE, token |-> <<>>]

\* Scanner.Err(): io.EOF is not an error
ScanErr(e) == IF e = EOF THEN NoErr ELSE e

\* ------------------------------------------------------------------ state
VARIABLES
  procCgroups,      \* the lines of /proc/cgroups
  noFinalNL,        \* /proc/cgroups does not end in a newline
  pc,               \* where the Validate call is
  spec,             \* the SysSpec.CgroupSpec argument of the call
  fOpen,            \* the file handle f is open
  fpos,             \* file offset of f
  buf,              \* scanner buffer, s.buf[s.start:s.end]
  serr,             \* scanner error, s.err
  subsystems,       \* getCgroupSubsystems' result under construction
  rdErr,            \* the error getCgroupSubsystems returned
  idx,              \* position of the range loop in validateCgroupSubsystems
  missingRequired,  \* missing of the required pass
  missingOptional,  \* missing of the optional pass
  reports,          \* Reporter.Report calls of this Validate call
  warns, errs,      \* Validate's results
  readerCalls,      \* getCgroupSubsystems invocations of this Validate call
  calls,            \* completed Validate calls handed back to the caller
  changed,          \* the source changed since the previous call
  prev              \* what the previous call reported and returned

vars == <<procCgroups, noFinalNL, pc, spec, fOpen, fpos, buf, serr, subsystems, rdErr, idx,
          missingRequired, missingOptional, reports, warns, errs, readerCalls,
          calls, changed, prev>>

callVars == <<spec, fOpen, fpos, buf, serr, subsystems, rdErr, idx,
              missingRequired, missingOptional, reports, warns, errs, readerCalls>>

NoPrev == [spec |-> [Required |-> <<>>, Optional |-> <<>>], subsystems |-> <<>>,
           reports |-> <<>>, warns |-> <<>>, errs |-> <<>>, clean |-> FALSE]

InitCall ==
  /\ pc = "idle"
  /\ spec = [Required |-> <<>>, Optional |-> <<>>]
  /\ fOpen = FALSE
  /\ fpos = 0
  /\ buf = <<>>
  /\ serr = NoErr
  /\ subsystems = <<>>
  /\ rdErr = NoErr
  /\ idx = 1
  /\ missingRequired = <<>>
  /\ missingOptional = <<>>
  /\ reports = <<>>
  /\ warns = <<>>
  /\ errs = <<>>
  /\ readerCalls = 0
  /\ calls = 0
  /\ changed = FALSE
  /\ prev = NoPrev

Init ==
  /\ procCgroups \in Contents(MaxLines)
  /\ noFinalNL \in BOOLEAN
  /\ InitCall

InitTwice ==
  /\ procCgroups \in Contents(MaxLinesTwice)
  /\ noFinalNL = FALSE
  /\ InitCall

\* ---------------------------------------------------------------- actions
\* the handle is never closed
CloseNever(open) == open

\* defer f.Close()
Close(open) == FALSE

\* Validate is entered and getCgroupSubsystems opens the source.  A caller
\* that validates again passes the SysSpec it passed before.  With cached,
\* a later call reuses the enabled set of the previous call instead of
\* reading the source.
ValidateWith(cached) ==
  /\ pc = "idle"
  /\ \E s \in SysSpecs, openErr \in {NoErr, ENOENT} :
       /\ calls > 0 => s = prev.spec
       /\ spec' = s
       /\ readerCalls' = 1
       /\ fpos' = 0
       /\ buf' = <<>>
       /\ serr' = NoErr
       /\ idx' = 1
       /\ missingRequired' = <<>>
       /\ missingOptional' = <<>>
       /\ reports' = <<>>
       /\ warns' = <<>>
       /\ IF cached /\ calls > 0 /\ prev.clean
          THEN /\ rdErr' = NoErr
               /\ subsystems' = prev.subsystems
               /\ fOpen' = FALSE
               /\ errs' = <<>>
               /\ pc' = "required"
          ELSE /\ rdErr' = openErr
               /\ subsystems' = <<>>
               /\ IF openErr # NoErr
                  THEN /\ fOpen' = FALSE
                       /\ errs' = <<Wrap(openErr, "failed to get cgroup subsystems")>>
                       /\ pc' = "done"
                  ELSE /\ fOpen' = TRUE
                       /\ errs' = <<>>
                       /\ pc' = "scan"
  /\ UNCHANGED <<procCgroups, noFinalNL, calls, changed, prev>>

\* Validate that keeps the enabled set between calls
ValidateCached == ValidateWith(TRUE)

Validate == ValidateWith(FALSE)

\* Scan can produce a token from what the buffer holds.
HasToken == (Len(buf) > 0 \/ serr # NoErr) /\ ScanLines(buf, serr # NoErr).hasToken

\* Scan has no token and reads more input; the read delivers bytes, reaches
\* the end of the file, or fails.
ScanRead ==
  /\ pc = "scan"
  /\ ~HasToken
  /\ serr = NoErr
  /\ LET bytes == FileBytes(procCgroups, noFinalNL)
         n == Min(Len(bytes) - fpos, ReadMax)
     IN \E fail \in BOOLEAN :
          IF fail
          THEN /\ serr' = EIO
               /\ UNCHANGED <<buf, fpos>>
          ELSE IF n = 0
          THEN /\ serr' = EOF
               /\ UNCHANGED <<buf, fpos>>
          ELSE /\ buf' = buf \o SubSeq(bytes, fpos + 1, fpos + n)
               /\ fpos' = fpos + n
               /\ serr' = serr
  /\ UNCHANGED <<procCgroups, noFinalNL, pc, spec, fOpen, subsystems, rdErr, idx,
                 missingRequired, missingOptional, reports, warns, errs,
                 readerCalls, calls, changed, prev>>

\* Scan returns true and the loop body runs on the token.
ScanToken ==
  /\ pc = "scan"
  /\ HasToken
  /\ LET r == ScanLines(buf, serr # NoErr)
         text == r.token
         parts == Fields(text)
     IN /\ buf' = SubSeq(buf, r.advance + 1, Len(buf))
        /\ IF ScanErr(serr) # NoErr
           THEN /\ rdErr' = ScanErr(serr)
                /\ subsystems' = <<>>
                /\ fOpen' = Close(fOpen)
                /\ errs' = <<Wrap(ScanErr(serr), "failed to get cgroup subsystems")>>
                /\ pc' = "done"
           ELSE IF text = <<>>
           THEN /\ fOpen' = Close(fOpen)
                /\ pc' = "panicked"
                /\ UNCHANGED <<rdErr, subsystems, errs>>
           ELSE /\ subsystems' =
                     IF text[1] # "#" /\ Len(parts) >= 4 /\ parts[4] # <<"0">>
                     THEN Append(subsystems, parts[1])
                     ELSE subsystems
                /\ UNCHANGED <<rdErr, fOpen, errs, pc>>
  /\ UNCHANGED <<procCgroups, noFinalNL, spec, fpos, serr, idx, missingRequired,
                 missingOptional, reports, warns, readerCalls, calls, changed, prev>>

\* Scan returns false and getCgroupSubsystems returns (subsystems, nil).
ScanEnd ==
  /\ pc = "scan"
  /\ ~HasToken
  /\ serr # NoErr
  /\ buf' = <<>>
  /\ fOpen' = Close(fOpen)
  /\ pc' = "required"
  /\ UNCHANGED <<procCgroups, noFinalNL, spec, fpos, serr, subsystems, rdErr, idx,
                 missingRequired, missingOptional, reports, warns, errs,
                 readerCalls, calls, changed, prev>>

\* the inner loop of validateCgroupSubsystems
Found(cgroup, subs) == \E i \in 1..Len(subs) : cgroup = subs[i]

\* Report that ignores the tier: every missing cgroup is bad
ReportOfNoTier(cgroup, subs, required) ==
  LET item == cgroupsConfigPrefix \o Str(ToUpper(cgroup))
  IN IF Found(cgroup, subs) THEN <<item, "enabled", good>>
     ELSE <<item, "missing", bad>>

\* the Reporter.Report call one iteration of validateCgroupSubsystems makes
ReportOf(cgroup, subs, required) ==
  LET item == cgroupsConfigPrefix \o Str(ToUpper(cgroup))
  IN IF Found(cgroup, subs) THEN <<item, "enabled", good>>
     ELSE IF required THEN <<item, "missing", bad>>
     ELSE <<item, "missing", warn>>

\* the iteration without its continue: found cgroups are appended too
MissingAlways(missing, cgroup, subs) == Append(missing, cgroup)

\* missing after one iteration of validateCgroupSubsystems
MissingAfter(missing, cgroup, subs) ==
  IF Found(cgroup, subs) THEN missing ELSE Append(missing, cgroup)

\* one iteration of validateCgroupSubsystems(spec.CgroupSpec.Required, subsystems, true)
RequiredEntry ==
  /\ pc = "required"
  /\ idx <= Len(spec.Required)
  /\ reports' = Append(reports, ReportOf(spec.Required[idx], subsystems, TRUE))
  /\ missingRequired' = MissingAfter(missingRequired, spec.Required[idx], subsystems)
  /\ idx' = idx + 1
  /\ UNCHANGED <<procCgroups, noFinalNL, pc, spec, fOpen, fpos, buf, serr, subsystems, rdErr,
                 missingOptional, warns, errs, readerCalls, calls, changed, prev>>

\* the required pass returns and Validate builds errs; with stop, Validate
\* returns as soon as a required cgroup is missing
RequiredDoneWith(stop) ==
  /\ pc = "required"
  /\ idx > Len(spec.Required)
  /\ errs' = IF Len(missingRequired) # 0
             THEN <<Errorf("missing required cgroups: ", missingRequired)>>
             ELSE errs
  /\ idx' = 1
  /\ pc' = IF stop /\ Len(missingRequired) # 0 THEN "done" ELSE "optional"
  /\ UNCHANGED <<procCgroups, noFinalNL, spec, fOpen, fpos, buf, serr, subsystems, rdErr,
                 missingRequired, missingOptional, reports, warns, readerCalls,
                 calls, changed, prev>>

\* Validate that skips the optional pass once a required cgroup is missing
RequiredDoneEarly == RequiredDoneWith(TRUE)

RequiredDone == RequiredDoneWith(FALSE)

\* one iteration of validateCgroupSubsystems(spec.CgroupSpec.Optional, subsystems, false)
OptionalEntry ==
  /\ pc = "optional"
  /\ idx <= Len(spec.Optional)
  /\ reports' = Append(reports, ReportOf(spec.Optional[idx], subsystems, FALSE))
  /\ missingOptional' = MissingAfter(missingOptional, spec.Optional[idx], subsystems)
  /\ idx' = idx + 1
  /\ UNCHANGED <<procCgroups, noFinalNL, pc, spec, fOpen, fpos, buf, serr, subsystems, rdErr,
                 missingRequired, warns, errs, readerCalls, calls, changed, prev>>

\* the optional pass returns, Validate builds warns and returns
OptionalDone ==
  /\ pc = "optional"
  /\ idx > Len(spec.Optional)
  /\ warns' = IF Len(missingOptional) # 0
              THEN <<Errorf("missing optional cgroups: ", missingOptional)>>
              ELSE warns
  /\ pc' = "done"
  /\ UNCHANGED <<procCgroups, noFinalNL, spec, fOpen, fpos, buf, serr, subsystems, rdErr, idx,
                 missingRequired, missingOptional, reports, errs, readerCalls,
                 calls, changed, prev>>

\* The caller takes the results; the validator is ready for another call.
Return ==
  /\ pc = "done"
  /\ calls + 1 < MaxCalls
  /\ calls' = calls + 1
  /\ prev' = [spec |-> spec, subsystems |-> subsystems, reports |-> reports, warns |-> warns, errs |-> errs,
              clean |-> (rdErr = NoErr /\ serr # EIO)]
  /\ changed' = FALSE
  /\ pc' = "idle"
  /\ spec' = [Required |-> <<>>, Optional |-> <<>>]
  /\ fOpen' = FALSE
  /\ fpos' = 0
  /\ buf' = <<>>
  /\ serr' = NoErr
  /\ subsystems' = <<>>
  /\ rdErr' = NoErr
  /\ idx' = 1
  /\ missingRequired' = <<>>
  /\ missingOptional' = <<>>
  /\ reports' = <<>>
  /\ warns' = <<>>
  /\ errs' = <<>>
  /\ readerCalls' = 0
  /\ UNCHANGED <<procCgroups, noFinalNL>>

\* The kernel's subsystem state changes between two calls.
ChangeSource ==
  /\ pc = "idle"
  /\ calls > 0
  /\ ~changed
  /\ \E c \in Contents(MaxLinesTwice) :
       /\ c # procCgroups
       /\ procCgroups' = c
  /\ changed' = TRUE
  /\ UNCHANGED <<noFinalNL, pc, calls, prev>>
  /\ UNCHANGED callVars

Next ==
  \/ Validate
  \/ ScanRead
  \/ ScanToken
  \/ ScanEnd
  \/ RequiredEntry
  \/ RequiredDone
  \/ OptionalEntry
  \/ OptionalDone

NextTwice ==
  \/ Next
  \/ Return
  \/ ChangeSource

Spec == Init /\ [][Next]_vars

SpecTwice == InitTwice /\ [][NextTwice]_vars

\* ----------------------------------------------------------- properties
Range(q) == {q[i] : i \in 1..Len(q)}

\* a line the status source counts as an enabled subsystem
IsEnabledLine(l) ==
  /\ l # <<>>
  /\ l[1] # "#"
  /\ Len(Fields(l)) >= 4
  /\ Fields(l)[4] # <<"0">>

\* the first fields of the enabled lines, in file order
EnabledOf(lines) ==
  LET sel == SelectSeq(lines, IsEnabledLine)
  IN [i \in 1..Len(sel) |-> Fields(sel[i])[1]]

\* the declared entries: Required followed by Optional
Entries == spec.Required \o spec.Optional

IsAbsent(n) == n \notin Range(subsystems)

AbsentOf(list) == SelectSeq(list, IsAbsent)

KeyOf(n) == "CGROUPS_" \o Str(ToUpper(n))

ReadOK == pc \in {"required", "optional", "done"} /\ rdErr = NoErr

Returned == pc = "done" /\ rdErr = NoErr

\* C1: for every content read without I/O error, getCgroupSubsystems returns
\* exactly the first fields of the lines that do not start with '#', have at
\* least 4 fields and whose 4th field is not the text "0", in file order.
C1_EnabledSet ==
  (pc \in {"required", "optional", "done", "panicked"} /\ serr # EIO /\ rdErr # ENOENT)
    => (pc # "panicked" /\ rdErr = NoErr /\ subsystems = EnabledOf(procCgroups))

\* C2: whenever the Reader fails, Validate returns no warnings and exactly one
\* error "failed to get cgroup subsystems: <underlying error>", and Report
\* was never called.
C2_ReaderFailure ==
  (pc = "done" /\ rdErr # NoErr)
    => /\ warns = <<>>
       /\ errs = <<"failed to get cgroup subsystems: " \o rdErr>>
       /\ reports = <<>>

C2_Witness == pc = "done" /\ rdErr = EIO /\ Len(spec.Required) > 0 /\ fpos > 0

\* C3 as stated: in every successful call every name of Required and Optional
\* produces exactly one ReportEvent and is in exactly one of present,
\* missing-required, missing-optional, whatever the lists repeat or share.
C3_PerName ==
  (Returned /\ serr = EOF) =>
    \A n \in Range(Entries) :
      /\ Cardinality({k \in 1..Len(reports) : reports[k][1] = KeyOf(n)}) = 1
      /\ Cardinality({c \in {"present", "required", "optional"} :
            \/ c = "present" /\ ~IsAbsent(n)
            \/ c = "required" /\ n \in Range(missingRequired)
            \/ c = "optional" /\ n \in Range(missingOptional)}) = 1

\* C3 amended: every entry of Required and Optional, counted with repetition,
\* produces exactly one ReportEvent and falls in exactly one of present,
\* missing-required, missing-optional; a present name is in neither missing
\* list; per name this is exactly once when no name is repeated or shared.
C3_PerEntry ==
  Returned =>
    LET present == {k \in 1..Len(reports) : reports[k][2] = "enabled"}
        misReq == {k \in 1..Len(reports) : k <= Len(spec.Required) /\ reports[k][3] = bad}
        misOpt == {k \in 1..Len(reports) : k > Len(spec.Required) /\ reports[k][3] = warn}
    IN /\ Len(reports) = Len(Entries)
       /\ present \cup misReq \cup misOpt = 1..Len(Entries)
       /\ present \cap misReq = {} /\ present \cap misOpt = {} /\ misReq \cap misOpt = {}
       /\ \A k \in present : ~IsAbsent(Entries[k])
       /\ Len(missingRequired) = Cardinality(misReq)
       /\ Len(missingOptional) = Cardinality(misOpt)
       /\ Range(subsystems) \cap (Range(missingRequired) \cup Range(missingOptional)) = {}
       /\ Cardinality(Range(Entries)) = Len(Entries) =>
            \A n \in Range(Entries) :
              Cardinality({k \in 1..Len(reports) : reports[k][1] = KeyOf(n)}) = 1

C3_Witness ==
  /\ Returned
  /\ Len(spec.Required) = 1
  /\ spec.Optional = spec.Required
  /\ Len(reports) = 2
  /\ Len(missingRequired) = 1

\* C4: after a successful read, errs is the single message "missing required
\* cgroups: " followed by the absent Required names, space-joined in order,
\* or nil when none is absent; warns likewise from Optional.
C4_Aggregation ==
  Returned =>
    /\ errs = IF AbsentOf(spec.Required) = <<>> THEN <<>>
              ELSE <<"missing required cgroups: " \o Join(AbsentOf(spec.Required), " ")>>
    /\ warns = IF AbsentOf(spec.Optional) = <<>> THEN <<>>
               ELSE <<"missing optional cgroups: " \o Join(AbsentOf(spec.Optional), " ")>>

C4_Witness == Returned /\ Len(missingRequired) = 2 /\ Len(errs) = 1 /\ subsystems # <<>>

\* C5: a required entry that is absent is reported ("missing", bad) and goes
\* to the error list only; an optional entry that is absent is reported
\* ("missing", warn) and goes to the warning list only; a present entry is
\* reported ("enabled", good) in either pass.
C5_Severity ==
  ReadOK =>
    /\ \A k \in 1..Len(reports) :
         reports[k] =
           IF ~IsAbsent(Entries[k]) THEN <<KeyOf(Entries[k]), "enabled", good>>
           ELSE IF k <= Len(spec.Required) THEN <<KeyOf(Entries[k]), "missing", bad>>
           ELSE <<KeyOf(Entries[k]), "missing", warn>>
    /\ Range(missingRequired) \subseteq {n \in Range(spec.Required) : IsAbsent(n)}
    /\ Range(missingOptional) \subseteq {n \in Range(spec.Optional) : IsAbsent(n)}
    /\ pc = "done" =>
         /\ errs # <<>> <=> \E n \in Range(spec.Required) : IsAbsent(n)
         /\ warns # <<>> <=> \E n \in Range(spec.Optional) : IsAbsent(n)

C5_Witness ==
  /\ Returned
  /\ \E k \in 1..Len(reports) : reports[k][3] = bad
  /\ \E k \in 1..Len(reports) : reports[k][3] = warn

\* C6: the Reader is invoked once and before any Report call, and the Report
\* calls of a successful call are one per Required entry in list order, then
\* one per Optional entry in list order, also when Required names are missing.
C6_Order ==
  /\ pc = "scan" => reports = <<>>
  /\ pc \in {"scan", "required", "optional", "done"} => readerCalls = 1
  /\ Returned => [k \in 1..Len(reports) |-> reports[k][1]]
                   = [k \in 1..Len(Entries) |-> KeyOf(Entries[k])]

C6_Witness ==
  /\ Returned
  /\ missingRequired # <<>>
  /\ Len(spec.Optional) > 0
  /\ Len(reports) = Len(Entries)

\* C7: a read error in mid-scan makes getCgroupSubsystems return the error
\* and no subsystem set, so that Validate returns the single "failed to get
\* cgroup subsystems" error.
C7_ReadErrorSurfaces ==
  (serr = EIO /\ fpos > 0 /\ pc \in {"required", "optional", "done"})
    => /\ pc = "done"
       /\ rdErr = EIO
       /\ subsystems = <<>>
       /\ errs = <<"failed to get cgroup subsystems: " \o EIO>>

\* C8: an empty line, a blank line or a line with fewer than 4 fields never
\* makes the Reader fault or fail: the scan goes on and the Reader returns
\* without error.
C8_AnomaliesTolerated ==
  /\ pc # "panicked"
  /\ (pc \in {"required", "optional", "done"} /\ serr = EOF) => rdErr = NoErr

\* C9: Validate keeps nothing between calls: a call after an undisturbed call
\* with the same spec and unchanged source yields the same report events,
\* warnings and errors, and after a change of the source it yields what the
\* new contents alone determine.
C9_NoStateBetweenCalls ==
  (Returned /\ serr # EIO /\ calls > 0) =>
    /\ (prev.clean /\ ~changed) => /\ reports = prev.reports
                                   /\ warns = prev.warns
                                   /\ errs = prev.errs
    /\ reports = [k \in 1..Len(Entries) |->
                    ReportOf(Entries[k], EnabledOf(procCgroups), k <= Len(spec.Required))]
    /\ errs # <<>> <=> \E n \in Range(spec.Required) : n \notin Range(EnabledOf(procCgroups))
    /\ warns # <<>> <=> \E n \in Range(spec.Optional) : n \notin Range(EnabledOf(procCgroups))

C9_Witness ==
  /\ Returned
  /\ serr # EIO
  /\ calls > 0
  /\ prev.clean
  /\ changed
  /\ reports # prev.reports

\* C10: on every exit of getCgroupSubsystems the file handle is closed before
\* control leaves Validate, and a failed open holds no handle.
C10_HandleClosed == pc \in {"idle", "required", "optional", "done", "panicked"} => ~fOpen

C10_Witness == pc = "done" /\ rdErr = EIO /\ ~fOpen /\ subsystems = <<>> /\ fpos > 0
====
